---- MODULE Spec2Model ----
(***************************************************************************)
(* musicbytes: a binary file is read as a bit stream, decoded into a       *)
(* Melody (map_to_notes, src/src/lib.rs) and written out as a WAV file,    *)
(* an Arduino array or a JSON list (main, src/src/main.rs).                *)
(***************************************************************************)
EXTENDS Integers, Sequences, FiniteSets, TLC

VARIABLES
    mode,       \* args[1] of main: "wav", "arduino", "json", or anything else ("bad")
    exists,     \* whether File::open(path) finds the file
    file,       \* the bytes of the source file
    pc,         \* position of the run
    file_size,  \* map_to_notes: file_size (bits)
    counter,    \* map_to_notes: counter
    pos,        \* number of bits the BitReader has handed out
    bpm,        \* map_to_notes: bpm (u8)
    units,      \* map_to_notes: units; afterwards Melody.units
    args,       \* the (pitch, duration, volume) triples handed to to_note, in call order
    res,        \* result of map_to_notes: "none" while running, "Ok" or the error
    wres,       \* result of write_melody: "none", "Ok" or "IoError"
    widx,       \* write_melody: index of the next tone to write
    samples,    \* number of samples written for each tone, in order
    stdout,     \* what main printed, in order
    exitCode,   \* process exit status, -1 while running
    bits,       \* input of pack_to_byte (pure-function specifications)
    packed      \* result of pack_to_byte (pure-function specifications), -1 before

vars == <<mode, exists, file, pc, file_size, counter, pos, bpm, units, args,
          res, wres, widx, samples, stdout, exitCode, bits, packed>>

(***************************************************************************)
(* Program constants                                                       *)
(***************************************************************************)
MIN_FILE_SIZE == 15
BITS_PER_NOTE == 18
SAMPLING_RATE == 44100
\* width of u8: bpm, pitch, duration, volume and the byte built by pack_to_byte
U8 == 256
\* write_for_arduino: the capacity of the emitted array
ARDUINO_CAP == 100

(***************************************************************************)
(* Bounds of the model                                                     *)
(***************************************************************************)
\* largest source file, in bytes
MaxBytes == 20
\* longest bit vector handed to pack_to_byte on its own
MaxBits == 9
\* longest Melody handed to write_for_arduino on its own
MaxTones == 102

Bit == {0, 1}

Pow2(n) == 2 ^ n

(***************************************************************************)
(* The source file as a bit stream                                         *)
(***************************************************************************)
\* the byte at index i (from 0) of the file that starts with byte v and
\* grows by step from byte to byte
FileByte(v, step, i) == (v + i * step) % U8

MkFile(v, step, n) == [i \in 1..n |-> FileByte(v, step, i - 1)]

FileSteps == {0, 1}

Files == {MkFile(v, s, n) : v \in 0..(U8 - 1), s \in FileSteps, n \in 0..MaxBytes}

\* bit j (from 0) of the stream, most significant bit of each byte first
StreamBit(f, j) == (f[(j \div 8) + 1] \div Pow2(7 - (j % 8))) % 2

\* BitReader::read_multi(n) at stream position p: the next n bits, oldest first
read_multi(f, p, n) == [i \in 1..n |-> StreamBit(f, p + i - 1)]

\* whether n more bits are left at position p
CanRead(f, p, n) == p + n <= 8 * Len(f)

(***************************************************************************)
(* pack_to_byte                                                            *)
(***************************************************************************)
Reverse(s) == [i \in 1..Len(s) |-> s[Len(s) + 1 - i]]

\* byte |= bit, for a single bit
OrBit(byte, bit) == IF byte % 2 = 1 THEN byte ELSE byte + bit

\* the while loop of pack_to_byte: rev is the reversed vector, popped at its end
RECURSIVE PackLoop(_, _, _)
PackLoop(rev, byte, count) ==
    IF count < 8 /\ rev # <<>>
    THEN PackLoop(SubSeq(rev, 1, Len(rev) - 1),
                  OrBit((byte * 2) % U8, rev[Len(rev)]),
                  count + 1)
    ELSE byte

\* pack_to_byte without bits.reverse(): the last bit read becomes the most significant
pack_to_byte_no_reverse(b) == PackLoop(b, 0, 0)

pack_to_byte(b) == PackLoop(Reverse(b), 0, 0)

(***************************************************************************)
(* Tones                                                                   *)
(***************************************************************************)
Durations == <<"Double", "Whole", "Half", "Quarter", "Eighth", "Sixteenth",
               "ThirtySecond", "SixtyFourth", "HundredTwentyEighth">>

DurationSet == {Durations[i] : i \in 1..Len(Durations)}

\* impl From<u8> for Duration
RECURSIVE Duration_from(_)
Duration_from(duration) ==
    IF duration <= 8 THEN Durations[duration + 1] ELSE Duration_from(duration % 9)

\* Tone::new: frequency = 400 * 2^((pitch - 69) / 12) in f32, held in 1/1000 Hz,
\* for the pitches c_major produces
Frequency(pitch) ==
    CASE pitch = 60 -> 237841
      [] pitch = 62 -> 266967
      [] pitch = 64 -> 299661
      [] pitch = 65 -> 317480
      [] pitch = 67 -> 356359
      [] pitch = 69 -> 400000

\* Tone::new with the duration taken from Duration::from
ToneDuration_from9(dur) == Duration_from(dur)

\* Tone::new: the match on dur % 4
ToneDuration(dur) ==
    CASE dur % 4 = 0 -> "Half"
      [] dur % 4 = 1 -> "Quarter"
      [] dur % 4 = 2 -> "Eighth"
      [] OTHER       -> "Sixteenth"

\* Tone::new; volume = vol / 256.0 is held as its numerator over 256
Tone_new(pitch, dur, vol) ==
    [pitch     |-> pitch,
     duration  |-> ToneDuration(dur),
     volume    |-> vol,
     frequency |-> Frequency(pitch)]

\* main.rs c_major, the callback main hands to map_to_notes
c_major(pitch, duration, volume) ==
    LET p == CASE pitch % 6 = 0 -> 60
               [] pitch % 6 = 1 -> 62
               [] pitch % 6 = 2 -> 64
               [] pitch % 6 = 3 -> 65
               [] pitch % 6 = 4 -> 67
               [] pitch % 6 = 5 -> 69
               [] OTHER         -> 60
    IN Tone_new(p, duration, volume)

\* tone.frequency as u32
FrequencyAsU32(tone) == tone.frequency \div 1000

(***************************************************************************)
(* time_calc, in f32 arithmetic                                            *)
(***************************************************************************)
\* n / d rounded to the nearest integer, ties to even
RoundHalfEven(n, d) ==
    LET q == n \div d
        r == n % d
    IN IF 2 * r > d \/ (2 * r = d /\ q % 2 = 1) THEN q + 1 ELSE q

\* beats = 2^BeatsExp(duration)
BeatsExp(duration) ==
    CASE duration = "Double"              -> 3
      [] duration = "Whole"               -> 2
      [] duration = "Half"                -> 1
      [] duration = "Quarter"             -> 0
      [] duration = "Eighth"              -> -1
      [] duration = "Sixteenth"           -> -2
      [] duration = "ThirtySecond"        -> -3
      [] duration = "SixtyFourth"         -> -4
      [] duration = "HundredTwentyEighth" -> -5

\* base = 60.0 / bpm as f32: the 24-bit mantissa m with base = m * 2^-25
\* (0.25 <= base <= 0.5 for the tempi map_to_notes produces)
BaseMantissa(b) == RoundHalfEven(60 * Pow2(25), b)

\* the f32 product m * 2^-25 * 44100 rounded to 24 bits: <<R, k>> with
\* product = R * 2^(k - 23).  m * 44100 = (C * 4096 + Bl) * 4 is split so that
\* every intermediate value fits 32 bits.
F32Product(m) ==
    LET A  == (m \div 4096) * (SAMPLING_RATE \div 4)
        B  == (m % 4096) * (SAMPLING_RATE \div 4)
        C  == A + (B \div 4096)
        Bl == B % 4096
        k  == IF C < Pow2(25) THEN 13 ELSE 14
        Q  == C \div Pow2(k - 12)
        rem  == (C % Pow2(k - 12)) * 4096 + Bl
        half == Pow2(k - 1)
        R  == IF rem > half \/ (rem = half /\ Q % 2 = 1) THEN Q + 1 ELSE Q
    IN <<R, k>>

\* (base * beats * SAMPLING_RATE as f32) as u32 rounding to the nearest integer
time_calc_round(b, duration) ==
    LET p == F32Product(BaseMantissa(b))
        sh == Pow2(23 - p[2] - BeatsExp(duration))
    IN (p[1] + (sh \div 2)) \div sh

\* (base * beats * SAMPLING_RATE as f32) as u32: the cast truncates
time_calc(b, duration) ==
    LET p == F32Product(BaseMantissa(b))
    IN p[1] \div Pow2(23 - p[2] - BeatsExp(duration))

(***************************************************************************)
(* write_for_arduino, write_for_json                                       *)
(* A String is a sequence of tokens: a number printed by {} or a literal.  *)
(* The literals a pop() can reach are single characters.                   *)
(***************************************************************************)
Txt(s) == [t |-> "txt", s |-> s]

Num(n) == [t |-> "num", n |-> n]

\* String::pop: drops the last character
Pop(out) ==
    IF out = <<>> THEN out
    ELSE LET last == out[Len(out)]
             init == SubSeq(out, 1, Len(out) - 1)
         IN IF last.t = "num" /\ last.n >= 10
            THEN Append(init, Num(last.n \div 10))
            ELSE init

\* the for loops: format!("{}, ", frequency as u32) pushed for the first c tones of u
PushFrequencies(out, u, c) ==
    out \o [i \in 1..(3 * c) |->
              CASE i % 3 = 1 -> Num(FrequencyAsU32(u[(i + 2) \div 3]))
                [] i % 3 = 2 -> Txt(",")
                [] OTHER     -> Txt(" ")]

\* write_for_arduino without the limit of 100
ArduinoCount_unlimited(n) == n

\* write_for_arduino: c
ArduinoCount(n) == IF n <= ARDUINO_CAP THEN n ELSE ARDUINO_CAP

write_for_arduino(u) ==
    LET c == ArduinoCount(Len(u))
        head == <<Txt("int tone_count = "), Num(c), Txt(";"), Txt("\n"),
                  Txt("int tones["), Num(c), Txt("]"), Txt(" "), Txt("="),
                  Txt(" "), Txt("{")>>
    IN Pop(Pop(PushFrequencies(head, u, c))) \o <<Txt("}"), Txt(";"), Txt("\n")>>

write_for_json(u) ==
    Pop(Pop(PushFrequencies(<<Txt("[")>>, u, Len(u)))) \o <<Txt("]"), Txt("\n")>>

(***************************************************************************)
(* map_to_notes                                                            *)
(***************************************************************************)
PitchBits == 3
DurationBits == 4
VolumeBits == 8
TempoBits == 8

\* the size check without the conversion to bits
TooSmall_bytes(size) == size < MIN_FILE_SIZE

\* file_size < MIN_FILE_SIZE * 8
TooSmall(size) == size < MIN_FILE_SIZE * 8

\* bpm with a modulus that lets the sum leave [120, 239]
Bpm_mod128(raw) == ((raw % 128) + 120) % U8

\* pack_to_byte(vec_bpm) % 120 + 120, in u8
Bpm(raw) == ((raw % 120) + 120) % U8

\* the loop condition without the - 1
LoopCond_no_minus_one(c, size) == c + BITS_PER_NOTE <= size

\* counter + BITS_PER_NOTE <= file_size - 1
LoopCond(c, size) == c + BITS_PER_NOTE <= size - 1

\* counter advanced by the width of the tempo field
NextCounter_tempo_width(c) == c + TempoBits

\* counter += BITS_PER_NOTE
NextCounter(c) == c + BITS_PER_NOTE

\* the three fields of a note record v (15 bits, oldest first), packed
NoteArgs(v) ==
    [pitch    |-> pack_to_byte(SubSeq(v, 1, PitchBits)),
     duration |-> pack_to_byte(SubSeq(v, PitchBits + 1, PitchBits + DurationBits)),
     volume   |-> pack_to_byte(SubSeq(v, PitchBits + DurationBits + 1,
                                         PitchBits + DurationBits + VolumeBits))]

\* to_note, as main passes it
to_note(a) == c_major(a.pitch, a.duration, a.volume)

RecordBits == PitchBits + DurationBits + VolumeBits

Modes == {"wav", "arduino", "json"}

progVars == <<mode, exists, file>>
wavVars == <<wres, widx, samples>>
pureVars == <<bits, packed>>

\* main: wrong argument count or unknown output mode
Usage ==
    /\ pc = "main"
    /\ mode \notin Modes
    /\ stdout' = Append(stdout, <<"Usage: musicbytes [arduino/json/wav] FILE">>)
    /\ exitCode' = 1
    /\ pc' = "exit"
    /\ UNCHANGED <<progVars, file_size, counter, pos, bpm, units, args, res, wavVars, pureVars>>

\* map_to_notes up to the size check
OpenFile ==
    /\ pc = "main"
    /\ mode \in Modes
    /\ IF ~exists
       THEN /\ res' = "NotFound"
            /\ pc' = "returned"
            /\ UNCHANGED file_size
       ELSE /\ file_size' = Len(file) * 8
            /\ IF TooSmall(file_size')
               THEN res' = "FileTooSmall" /\ pc' = "returned"
               ELSE res' = res /\ pc' = "tempo"
    /\ UNCHANGED <<progVars, counter, pos, bpm, units, args, wavVars, stdout, exitCode, pureVars>>

\* let vec_bpm = reader.read_multi(8)?; bpm; counter += 8
ReadTempo ==
    /\ pc = "tempo"
    /\ IF CanRead(file, pos, TempoBits)
       THEN /\ bpm' = Bpm(pack_to_byte(read_multi(file, pos, TempoBits)))
            /\ pos' = pos + TempoBits
            /\ counter' = counter + TempoBits
            /\ pc' = "loop"
            /\ UNCHANGED res
       ELSE /\ res' = "UnexpectedEof"
            /\ pc' = "returned"
            /\ UNCHANGED <<bpm, pos, counter>>
    /\ UNCHANGED <<progVars, file_size, units, args, wavVars, stdout, exitCode, pureVars>>

\* one iteration of the while loop
ReadNote ==
    /\ pc = "loop"
    /\ LoopCond(counter, file_size)
    /\ IF CanRead(file, pos, RecordBits)
       THEN LET a == NoteArgs(read_multi(file, pos, RecordBits))
            IN /\ args' = Append(args, a)
               /\ units' = Append(units, to_note(a))
               /\ pos' = pos + RecordBits
               /\ counter' = NextCounter(counter)
               /\ UNCHANGED <<pc, res>>
       ELSE /\ res' = "UnexpectedEof"
            /\ pc' = "returned"
            /\ pos' = IF CanRead(file, pos, PitchBits + DurationBits)
                      THEN pos + PitchBits + DurationBits
                      ELSE IF CanRead(file, pos, PitchBits) THEN pos + PitchBits ELSE pos
            /\ UNCHANGED <<args, units, counter>>
    /\ UNCHANGED <<progVars, file_size, bpm, wavVars, stdout, exitCode, pureVars>>

\* Ok(Melody { bpm, units })
ReturnMelody ==
    /\ pc = "loop"
    /\ ~LoopCond(counter, file_size)
    /\ res' = "Ok"
    /\ pc' = "returned"
    /\ UNCHANGED <<progVars, file_size, counter, pos, bpm, units, args, wavVars, stdout, exitCode, pureVars>>

(***************************************************************************)
(* main: what follows map_to_notes                                         *)
(***************************************************************************)
\* Err(err) => { println!("Error: {}", err); exit(1); }
DecodeFailed ==
    /\ pc = "returned"
    /\ res # "Ok"
    /\ stdout' = Append(stdout, <<"Error: ", res>>)
    /\ exitCode' = 1
    /\ pc' = "exit"
    /\ UNCHANGED <<progVars, file_size, counter, pos, bpm, units, args, res, wavVars, pureVars>>

\* write_melody: WavWriter::create(path, spec)? succeeds
WavCreateOk ==
    /\ pc = "returned"
    /\ res = "Ok"
    /\ mode = "wav"
    /\ widx' = 1
    /\ pc' = "wav"
    /\ UNCHANGED <<progVars, file_size, counter, pos, bpm, units, args, res, wres, samples, stdout, exitCode, pureVars>>

\* write_melody: WavWriter::create(path, spec)? fails
WavCreateFail ==
    /\ pc = "returned"
    /\ res = "Ok"
    /\ mode = "wav"
    /\ wres' = "IoError"
    /\ pc' = "wrote"
    /\ UNCHANGED <<progVars, file_size, counter, pos, bpm, units, args, res, widx, samples, stdout, exitCode, pureVars>>

\* write_tone for the next tone: every write_sample succeeds, steps samples are written
WriteToneOk ==
    /\ pc = "wav"
    /\ widx <= Len(units)
    /\ samples' = Append(samples, time_calc(bpm, units[widx].duration))
    /\ widx' = widx + 1
    /\ UNCHANGED <<progVars, pc, file_size, counter, pos, bpm, units, args, res, wres, stdout, exitCode, pureVars>>

\* write_tone for the next tone: a write_sample fails
WriteToneFail ==
    /\ pc = "wav"
    /\ widx <= Len(units)
    /\ wres' = "IoError"
    /\ pc' = "wrote"
    /\ UNCHANGED <<progVars, file_size, counter, pos, bpm, units, args, res, widx, samples, stdout, exitCode, pureVars>>

\* write_melody: Ok(()) after the last tone
WavOk ==
    /\ pc = "wav"
    /\ widx > Len(units)
    /\ wres' = "Ok"
    /\ pc' = "wrote"
    /\ UNCHANGED <<progVars, file_size, counter, pos, bpm, units, args, res, widx, samples, stdout, exitCode, pureVars>>

\* main: the match on write_melody's result, then the end of main
WavReport ==
    /\ pc = "wrote"
    /\ stdout' = Append(stdout, IF wres = "Ok"
                                THEN <<"Successfully created ", "audio.wav">>
                                ELSE <<"Error creating ", "audio.wav", wres>>)
    /\ exitCode' = 0
    /\ pc' = "exit"
    /\ UNCHANGED <<progVars, file_size, counter, pos, bpm, units, args, res, wavVars, pureVars>>

\* OutputMode::Arduino
Arduino ==
    /\ pc = "returned"
    /\ res = "Ok"
    /\ mode = "arduino"
    /\ stdout' = Append(stdout, <<"arduino", write_for_arduino(units)>>)
    /\ exitCode' = 0
    /\ pc' = "exit"
    /\ UNCHANGED <<progVars, file_size, counter, pos, bpm, units, args, res, wavVars, pureVars>>

\* OutputMode::JSON
Json ==
    /\ pc = "returned"
    /\ res = "Ok"
    /\ mode = "json"
    /\ stdout' = Append(stdout, <<"json", write_for_json(units)>>)
    /\ exitCode' = 0
    /\ pc' = "exit"
    /\ UNCHANGED <<progVars, file_size, counter, pos, bpm, units, args, res, wavVars, pureVars>>

(***************************************************************************)
(* The run of the program over a family of source files                    *)
(***************************************************************************)
Fresh ==
    /\ file_size = 0
    /\ counter = 0
    /\ pos = 0
    /\ bpm = 0
    /\ units = <<>>
    /\ args = <<>>
    /\ res = "none"
    /\ wres = "none"
    /\ widx = 0
    /\ samples = <<>>
    /\ stdout = <<>>
    /\ exitCode = -1

Init ==
    /\ pc = "main"
    /\ \/ mode = "bad" /\ exists = TRUE /\ file = <<>>
       \/ mode \in Modes /\ exists = FALSE /\ file = <<>>
       \/ mode \in Modes /\ exists = TRUE /\ file \in Files
    /\ Fresh
    /\ bits = <<>>
    /\ packed = -1

Next ==
    \/ Usage
    \/ OpenFile
    \/ ReadTempo
    \/ ReadNote
    \/ ReturnMelody
    \/ DecodeFailed
    \/ WavCreateOk
    \/ WavCreateFail
    \/ WriteToneOk
    \/ WriteToneFail
    \/ WavOk
    \/ WavReport
    \/ Arduino
    \/ Json

Spec == Init /\ [][Next]_vars

(***************************************************************************)
(* pack_to_byte and the fields of a note record, over every bit vector     *)
(***************************************************************************)
BitVectors == UNION {[1..n -> Bit] : n \in 0..MaxBits}

NoteRecords == [1..RecordBits -> Bit]

InitPack ==
    /\ pc = "pack"
    /\ bits \in BitVectors \cup NoteRecords
    /\ packed = -1
    /\ mode = "wav" /\ exists = TRUE /\ file = <<>>
    /\ Fresh

\* pack_to_byte(bits)
Pack ==
    /\ pc = "pack"
    /\ packed' = pack_to_byte(bits)
    /\ pc' = "packed"
    /\ UNCHANGED <<progVars, file_size, counter, pos, bpm, units, args, res, wavVars, stdout, exitCode, bits>>

\* the body of the while loop of map_to_notes on one note record
PackNote ==
    /\ pc = "pack"
    /\ Len(bits) = RecordBits
    /\ args' = Append(args, NoteArgs(bits))
    /\ units' = Append(units, to_note(NoteArgs(bits)))
    /\ pc' = "noted"
    /\ UNCHANGED <<progVars, file_size, counter, pos, bpm, res, wavVars, stdout, exitCode, pureVars>>

NextPack == Pack \/ PackNote

SpecPack == InitPack /\ [][NextPack]_vars

(***************************************************************************)
(* write_melody over every tempo and every duration                        *)
(***************************************************************************)
InitTime ==
    /\ pc = "wav"
    /\ mode = "wav" /\ exists = TRUE /\ file = <<>>
    /\ Fresh!1 /\ Fresh!2 /\ Fresh!3
    /\ \E raw \in 0..(U8 - 1) : bpm = Bpm(raw)
    /\ \E d \in DurationSet :
          units = [i \in 1..1 |-> [Tone_new(60, 0, 0) EXCEPT !.duration = d]]
    /\ args = <<>>
    /\ res = "Ok"
    /\ wres = "none"
    /\ widx = 1
    /\ samples = <<>>
    /\ stdout = <<>>
    /\ exitCode = -1
    /\ bits = <<>>
    /\ packed = -1

NextTime == WriteToneOk \/ WriteToneFail \/ WavOk \/ WavReport

SpecTime == InitTime /\ [][NextTime]_vars

(***************************************************************************)
(* write_for_arduino and write_for_json over melodies of every length      *)
(***************************************************************************)
\* the melody of n tones whose k-th record has pitch k * stride, duration k, volume k
MkMelody(n, stride) ==
    [k \in 1..n |-> c_major((k * stride) % Pow2(PitchBits), k % Pow2(DurationBits),
                            k % Pow2(VolumeBits))]

MelodyStrides == {1, 3}

InitArduino ==
    /\ pc = "returned"
    /\ mode \in {"arduino", "json"} /\ exists = TRUE /\ file = <<>>
    /\ Fresh!1 /\ Fresh!2 /\ Fresh!3
    /\ \E raw \in {0, U8 - 1} : bpm = Bpm(raw)
    /\ \E n \in 0..MaxTones, st \in MelodyStrides :
          /\ units = MkMelody(n, st)
          /\ args = <<>>
    /\ res = "Ok"
    /\ wres = "none"
    /\ widx = 0
    /\ samples = <<>>
    /\ stdout = <<>>
    /\ exitCode = -1
    /\ bits = <<>>
    /\ packed = -1

NextArduino == Arduino \/ Json

SpecArduino == InitArduino /\ [][NextArduino]_vars

(***************************************************************************)
(* Properties                                                              *)
(***************************************************************************)
\* map_to_notes has returned or is past its size check
Checked == pc # "main"

\* C1: a source of fewer than 15 bytes makes map_to_notes fail with FileTooSmall,
\* with no bit read, no callback invoked and no Melody produced.
C1_FileTooSmall ==
    (Checked /\ mode \in Modes /\ exists /\ Len(file) < MIN_FILE_SIZE) =>
        /\ res = "FileTooSmall"
        /\ pos = 0
        /\ args = <<>>
        /\ units = <<>>

C1_Witness ==
    /\ pc = "exit"
    /\ exists
    /\ Len(file) = MIN_FILE_SIZE - 1
    /\ res = "FileTooSmall"
    /\ exitCode = 1

\* C2: once the tempo is read, bpm = (first byte mod 120) + 120 without wrapping
\* around the 8-bit field, so 120 <= bpm <= 239 and bpm # 0.
C2_Tempo ==
    (pos >= TempoBits) =>
        /\ bpm = (file[1] % 120) + 120
        /\ bpm \in 120..239
        /\ bpm # 0

C2_Witness ==
    /\ pc = "loop"
    /\ file[1] = U8 - 1
    /\ Len(file) = 16
    /\ bpm = 135

\* C3: a source of n >= 15 bytes decodes to floor((8n - 9) / 18) tones, one
\* callback call per loop iteration, in the order the records were read; at
\* most 6 tones for n = 15.
C3_ToneCount ==
    /\ (pos >= TempoBits) =>
          /\ Len(args) * BITS_PER_NOTE = counter - TempoBits
          /\ Len(units) = Len(args)
    /\ (res = "Ok") =>
          /\ Len(file) >= MIN_FILE_SIZE
          /\ Len(units) = (8 * Len(file) - 9) \div 18
          /\ \A k \in 1..Len(units) :
                units[k] = to_note(NoteArgs(read_multi(file, TempoBits + RecordBits * (k - 1),
                                                       RecordBits)))
          /\ (Len(file) = MIN_FILE_SIZE => Len(units) <= 6)

C3_Witness ==
    /\ res = "Ok"
    /\ Len(file) = 19
    /\ Len(units) = 7
    /\ units[1] # units[2]

FourDurations == <<"Half", "Quarter", "Eighth", "Sixteenth">>

ZeroFile == [i \in 1..MIN_FILE_SIZE |-> 0]

\* C4 as stated: the duration of a decoded Tone is entry (durationRaw mod 9) of
\* the nine-entry table; the all-zero 15-byte file gives bpm 120 and tones of
\* volume 0 and duration Double.
C4_NineTable ==
    /\ \A k \in 1..Len(units) :
          units[k].duration = Durations[(args[k].duration % 9) + 1]
    /\ (res = "Ok" /\ file = ZeroFile) =>
          /\ bpm = 120
          /\ \A k \in 1..Len(units) :
                units[k].volume = 0 /\ units[k].duration = "Double"

\* C4 amended: the duration of a decoded Tone is entry (durationRaw mod 4) of
\* the four-entry table [Half, Quarter, Eighth, Sixteenth]; the all-zero 15-byte
\* file gives bpm 120 and tones of volume 0 and duration Half.
C4_FourTable ==
    /\ \A k \in 1..Len(units) :
          units[k].duration = FourDurations[(args[k].duration % 4) + 1]
    /\ (res = "Ok" /\ file = ZeroFile) =>
          /\ bpm = 120
          /\ \A k \in 1..Len(units) :
                units[k].volume = 0 /\ units[k].duration = "Half"

C4_Witness ==
    /\ res = "Ok"
    /\ file = ZeroFile
    /\ Len(units) = 6
    /\ units[6].duration = "Half"

\* 60 * SAMPLING_RATE * 2^e / b, as the pair <<numerator, denominator>>
ExactSamples(b, e) ==
    IF e >= 0 THEN <<60 * SAMPLING_RATE * Pow2(e), b>>
              ELSE <<60 * SAMPLING_RATE, b * Pow2(0 - e)>>

\* the integer nearest to n / d
Nearest(n, d) == (2 * n + d) \div (2 * d)

\* C5 as stated: the number of samples written for a tone is
\* round((60 / bpm) * beatMultiplier * 44100).
C5_Rounded ==
    \A k \in 1..Len(samples) :
        LET x == ExactSamples(bpm, BeatsExp(units[k].duration))
        IN samples[k] = Nearest(x[1], x[2])

\* C5 amended: the number of samples written for a tone is
\* (60 / bpm) * beatMultiplier * 44100 truncated to an integer, that is
\* floor(2646000 * beatMultiplier / bpm), for every bpm in [120, 239] and
\* every duration.
C5_Truncated ==
    /\ bpm \in 120..239
    /\ \A k \in 1..Len(samples) :
          LET x == ExactSamples(bpm, BeatsExp(units[k].duration))
          IN samples[k] = x[1] \div x[2]

C5_Witness ==
    /\ bpm = 121
    /\ units[1].duration = "Quarter"
    /\ samples = <<21867>>
    /\ wres = "Ok"

IsNum(tok) == tok.t = "num"

Min(a, b) == IF a <= b THEN a ELSE b

\* C6: write_for_arduino emits exactly min(n, 100) frequencies, the first
\* min(n, 100) tones in order, with tone_count and the array size equal to
\* that number; 3 entries for 3 tones.
C6_ArduinoCapped ==
    (pc = "exit" /\ mode = "arduino" /\ res = "Ok") =>
        LET nums == SelectSeq(stdout[1][2], IsNum)
            c    == Min(Len(units), 100)
        IN /\ Len(nums) = c + 2
           /\ Len(nums) - 2 <= 100
           /\ nums[1].n = c
           /\ nums[2].n = c
           /\ \A i \in 1..c : nums[i + 2].n = units[i].frequency \div 1000
           /\ (Len(units) = 3 => Len(nums) - 2 = 3)

C6_Witness ==
    /\ pc = "exit"
    /\ mode = "arduino"
    /\ Len(units) = ARDUINO_CAP + 2
    /\ Len(SelectSeq(stdout[1][2], IsNum)) = ARDUINO_CAP + 2

\* C7: whenever map_to_notes or write_melody returned an error, the run ends
\* with a non-zero exit status and prints no success message.
C7_FailureExitsNonZero ==
    (pc = "exit" /\ (res \notin {"none", "Ok"} \/ wres = "IoError")) =>
        /\ exitCode # 0
        /\ \A i \in 1..Len(stdout) : stdout[i][1] # "Successfully created "

\* C8: at the start of every loop iteration counter equals the number of bits
\* consumed, and record k (from 0) is taken from stream bits 8 + 18k onwards.
C8_CounterIsPosition ==
    /\ (pc = "loop") => counter = pos
    /\ \A k \in 1..Len(args) :
          args[k] = NoteArgs(read_multi(file, TempoBits + BITS_PER_NOTE * (k - 1), RecordBits))

RECURSIVE BigEndian(_)
\* the big-endian value of a bit vector, first bit most significant
BigEndian(b) ==
    IF b = <<>> THEN 0 ELSE 2 * BigEndian(SubSeq(b, 1, Len(b) - 1)) + b[Len(b)]

\* C9: pack_to_byte of N <= 8 bits is their big-endian value, first bit read
\* most significant; the callback gets pitch in 0..7, duration in 0..15,
\* volume in 0..255.
C9_BigEndian ==
    /\ (pc = "packed" /\ Len(bits) <= 8) =>
          /\ packed = BigEndian(bits)
          /\ packed < Pow2(Len(bits))
    /\ (pc = "noted") =>
          /\ args[1].pitch = BigEndian(SubSeq(bits, 1, 3))
          /\ args[1].duration = BigEndian(SubSeq(bits, 4, 7))
          /\ args[1].volume = BigEndian(SubSeq(bits, 8, 15))
          /\ args[1].pitch \in 0..7
          /\ args[1].duration \in 0..15
          /\ args[1].volume \in 0..255

C9_Witness ==
    /\ pc = "packed"
    /\ bits = <<1, 1, 0>>
    /\ packed = 6

\* C10: for a source of n >= 15 bytes at most 8n - 1 bits are ever read, no
\* read runs past the end of the source, and file_size - 1 does not underflow.
C10_LastBitNeverRead ==
    (Checked /\ mode \in Modes /\ exists /\ Len(file) >= MIN_FILE_SIZE) =>
        /\ pos <= 8 * Len(file) - 1
        /\ res # "UnexpectedEof"
        /\ file_size - 1 >= 0
        /\ res \in {"none", "Ok"}

C10_Witness ==
    /\ res = "Ok"
    /\ Len(file) = 20
    /\ Len(units) = 8
    /\ pos = 128

====
